---- MODULE Spec2Model ----
(***************************************************************************)
(* goweave: the line classifier (commentFinder), the directive filter      *)
(* (isDirective), the section extractor (extractSections), the rendering   *)
(* of the sections (generateDocs) and the run over the files (main).       *)
(*                                                                         *)
(* A Go string is modelled as a sequence of one-character strings, so that *)
(* the regular expressions of the program are computed on the characters   *)
(* of each line.                                                           *)
(***************************************************************************)
EXTENDS Integers, Sequences, FiniteSets, TLC

VARIABLES
    intro,                      \* the -intro flag
    source,                     \* the source text handed to extractSections
    lines,                      \* strings.Split(source, "\n")
    i,                          \* position of the range loop in lines
    sections,                   \* the local slice `sections`
    current,                    \* the local `current` section
    commentSectionInProgress,   \* the flag captured by the commentFinder closure
    branch,                     \* what the last loop iteration did with its line
    pc,                         \* position in generateDocs and extractSections
    result,                     \* the slice extractSections returned
    raw,                        \* per section, the unstripped lines behind its Doc
    md,                         \* the -md flag
    bare,                       \* the -bare flag
    inline,                     \* the -inline flag
    installResources,           \* the -install flag
    outdir,                     \* the -outdir flag
    rendered,                   \* the sections of generateDocs, changed in place
    generated,                  \* what generateDocs returns
    args,                       \* flag.Args(): the files of the command line
    argIdx,                     \* position of the range loop of main
    mainpc,                     \* position in main and processFile
    loads,                      \* how often loadResources has run
    templ,                      \* the global templ
    style,                      \* the global style
    cwd,                        \* the working directory, seen from where main started
    log,                        \* the calls made to the file system, in order
    outputs                     \* the output documents written, in order

\* the state of extractSections
extractVars == << source, lines, i, sections, current,
                  commentSectionInProgress, branch, result, raw >>

\* the flags
flagVars == << intro, md, bare, inline, installResources, outdir >>

\* the state of main and processFile
mainVars == << args, argIdx, mainpc, loads, templ, style, cwd, log, outputs >>

vars == << extractVars, flagVars, mainVars, pc, rendered, generated >>

-----------------------------------------------------------------------------
(* Bounds of the model *)

\* longest input built from the line palette, in lines
MaxLines == 4

-----------------------------------------------------------------------------
(* Strings *)

NL == "\n"

\* the class \s of Go's regexp package: [\t\n\f\r ]
IsSpace(c) == c \in {" ", "\t", "\n", "\f", "\r"}

\* whether the literal lit occurs in s at position k
HasAt(s, k, lit) ==
    /\ k >= 1
    /\ k + Len(lit) - 1 <= Len(s)
    /\ SubSeq(s, k, k + Len(lit) - 1) = lit

\* length of the longest run of \s at the start of s
LeadingSpaces(s) ==
    CHOOSE k \in 0..Len(s) :
        /\ \A j \in 1..k : IsSpace(s[j])
        /\ k < Len(s) => ~IsSpace(s[k + 1])

\* index of the last character of s that is not \s (0 when there is none)
LastNonSpace(s) ==
    CHOOSE k \in 0..Len(s) :
        /\ \A j \in (k + 1)..Len(s) : IsSpace(s[j])
        /\ k > 0 => ~IsSpace(s[k])

\* the lines as a line scanner gives them: no empty last line after a
\* final newline, and no line at all for the empty text
RECURSIVE Split_scanLines(_)
Split_scanLines(s) ==
    IF s = << >>
    THEN << >>
    ELSE IF \A k \in 1..Len(s) : s[k] # NL
    THEN << s >>
    ELSE LET k == CHOOSE k \in 1..Len(s) :
                      s[k] = NL /\ \A j \in 1..(k - 1) : s[j] # NL
         IN  << SubSeq(s, 1, k - 1) >> \o Split_scanLines(SubSeq(s, k + 1, Len(s)))

\* strings.Split(s, "\n")
RECURSIVE Split(_)
Split(s) ==
    IF \A k \in 1..Len(s) : s[k] # NL
    THEN << s >>
    ELSE LET k == CHOOSE k \in 1..Len(s) :
                      s[k] = NL /\ \A j \in 1..(k - 1) : s[j] # NL
         IN  << SubSeq(s, 1, k - 1) >> \o Split(SubSeq(s, k + 1, Len(s)))

\* strings.Join(ls, "\n"): how an input text is put together from its lines
RECURSIVE Join(_)
Join(ls) ==
    IF Len(ls) = 0 THEN << >>
    ELSE IF Len(ls) = 1 THEN ls[1]
    ELSE ls[1] \o << NL >> \o Join(Tail(ls))

-----------------------------------------------------------------------------
(* The regular expressions *)

\* ^\s*<marker>\s? : the end of the match at the start of the line, 0 when
\* the pattern does not match (commentPtrn, commentStartPtrn)
PrefixMatch(line, marker) ==
    LET k == LeadingSpaces(line)
        e == k + Len(marker)
    IN  IF HasAt(line, k + 1, marker)
        THEN IF e < Len(line) /\ IsSpace(line[e + 1]) THEN e + 1 ELSE e
        ELSE 0

\* \s?\*/\s*$ searched from position from on: the start of the leftmost
\* match, 0 when the pattern does not match (commentEndPtrn)
SuffixMatch(line, from) ==
    LET n == LastNonSpace(line)
    IN  IF n - 1 >= from /\ line[n - 1] = "*" /\ line[n] = "/"
        THEN IF n - 2 >= from /\ IsSpace(line[n - 2]) THEN n - 2 ELSE n - 1
        ELSE 0

\* comment.FindString(line) != ""
comment(line) == PrefixMatch(line, << "/", "/" >>) # 0

\* commentStart.FindString(line) != ""
commentStart(line) == PrefixMatch(line, << "/", "*" >>) # 0

\* commentEnd.FindString(line) != ""
commentEnd(line) == SuffixMatch(line, 1) # 0

\* directive.FindString(line) != "", the pattern being ^//go:
directive(line) == HasAt(line, 1, << "/", "/", "g", "o", ":" >>)

\* the delimiters removed without the optional space that follows // and /*
allCommentDelims_keepSpace(line) ==
    LET k == LeadingSpaces(line)
        e == IF comment(line) \/ commentStart(line) THEN k + 2 ELSE 0
        b == SuffixMatch(line, e + 1)
    IN  IF b = 0
        THEN SubSeq(line, e + 1, Len(line))
        ELSE SubSeq(line, e + 1, b - 1)

\* only the delimiter at the start of the line removed, a closing */ kept
allCommentDelims_leadOnly(line) ==
    LET e == IF comment(line)
             THEN PrefixMatch(line, << "/", "/" >>)
             ELSE PrefixMatch(line, << "/", "*" >>)
    IN  SubSeq(line, e + 1, Len(line))

\* allCommentDelims.ReplaceAllString(line, ""): the alternatives are tried
\* in order at the leftmost position, the matches do not overlap, and ^
\* matches at the start of the line only
allCommentDelims(line) ==
    LET e == IF comment(line)
             THEN PrefixMatch(line, << "/", "/" >>)
             ELSE PrefixMatch(line, << "/", "*" >>)
        b == SuffixMatch(line, e + 1)
    IN  IF b = 0
        THEN SubSeq(line, e + 1, Len(line))
        ELSE SubSeq(line, e + 1, b - 1)

-----------------------------------------------------------------------------
(* Processing sections *)

\* new(section)
NewSection == [Doc |-> << >>, Code |-> << >>]

\* the flag of the classifier kept from one call of commentFinder to the next
freshFlag_keepOld(old) == old

\* commentFinder(): every closure starts with its own flag, which is false
freshFlag(old) == FALSE

\* commentFinder with the test of the flag placed before the test of the end
\* pattern, so that the closing line of a block no longer clears the flag
commentFinder_flagFirst(inProgress, line) ==
    IF comment(line)
    THEN [isComment |-> TRUE, inProgress |-> inProgress]
    ELSE IF commentStart(line)
    THEN [isComment |-> TRUE, inProgress |-> TRUE]
    ELSE IF inProgress
    THEN [isComment |-> TRUE, inProgress |-> inProgress]
    ELSE IF commentEnd(line)
    THEN [isComment |-> TRUE, inProgress |-> FALSE]
    ELSE [isComment |-> FALSE, inProgress |-> inProgress]

\* commentFinder with a // line that ends the block comment it is in
commentFinder_lineClears(inProgress, line) ==
    IF comment(line)
    THEN [isComment |-> TRUE, inProgress |-> FALSE]
    ELSE IF commentStart(line)
    THEN [isComment |-> TRUE, inProgress |-> TRUE]
    ELSE IF commentEnd(line)
    THEN [isComment |-> TRUE, inProgress |-> FALSE]
    ELSE IF inProgress
    THEN [isComment |-> TRUE, inProgress |-> inProgress]
    ELSE [isComment |-> FALSE, inProgress |-> inProgress]

\* the closure returned by commentFinder, applied to line with the captured
\* flag at inProgress: the value returned and the flag afterwards
commentFinder(inProgress, line) ==
    IF comment(line)
    THEN [isComment |-> TRUE, inProgress |-> inProgress]
    ELSE IF commentStart(line)
    THEN [isComment |-> TRUE, inProgress |-> TRUE]
    ELSE IF commentEnd(line)
    THEN [isComment |-> TRUE, inProgress |-> FALSE]
    ELSE IF inProgress
    THEN [isComment |-> TRUE, inProgress |-> inProgress]
    ELSE [isComment |-> FALSE, inProgress |-> inProgress]

\* isDirective recognizing the //go:generate directive only
isDirective_generateOnly(line) ==
    HasAt(line, 1, << "/", "/", "g", "o", ":", "g", "e", "n", "e", "r", "a", "t", "e" >>)

\* isDirective(line)
isDirective(line) == directive(line)

\* the switch to a new section taken on every comment line
inCodeGroup_always(cur) == TRUE

\* the switch to a new section taken whenever the Doc group is not empty
inCodeGroup_docNotEmpty(cur) == cur.Doc # << >>

\* the test that switches to a new section on a comment line
inCodeGroup(cur) == cur.Code # << >>

\* the stripped line appended without its newline
docText_noNewline(line) == allCommentDelims(line)

\* what a comment line appends to the Doc group
docText(line) == allCommentDelims(line) \o << NL >>

\* what a code line appends to the Code group
codeText(line) == line \o << NL >>

\* whether the loop stops at a line that is not a comment
stopAtCode(introFlag) == introFlag

\* the current section returned only when it holds something
returnSections_dropEmpty(secs, cur) ==
    IF cur = NewSection THEN secs ELSE Append(secs, cur)

\* the section in progress left out of the returned slice
returnSections_dropCurrent(secs, cur) == secs

\* the value extractSections returns
returnSections(secs, cur) == Append(secs, cur)

-----------------------------------------------------------------------------
(* Inputs *)

\* the lines the inputs are built from
LinePalette ==
    { << >>,                                  \* an empty line
      << "a" >>,                              \* a code line
      << " ", "a" >>,                         \* an indented code line
      << "/", "/", " ", "a" >>,               \* // a
      << "/", "*", " ", "a" >>,               \* /* a
      << "a", " ", "*", "/" >>,               \* a */
      << "/", "*", "a", "*", "/" >>,          \* /*a*/
      << "/", "/", "a", "*", "/" >>,          \* //a*/
      << "/", "/", "g", "o", ":", "g" >> }    \* //go:g

\* the input of Example 1 of the specification
Example1 ==
    << "/", "/", " ", "T", "e", "s", "t", " ", "c", "o", "m", "m", "e", "n", "t", "\n",
       "/", "/", " ", "m", "o", "r", "e", " ", "c", "o", "m", "m", "e", "n", "t", "\n",
       "\n", "T", "e", "s", "t", " ", "c", "o", "d", "e", "\n", "M", "o", "r", "e", " ",
       "c", "o", "d", "e", "\n", "\n", "/", "/", " ", "S", "e", "c", "o", "n", "d", " ",
       "c", "o", "m", "m", "e", "n", "t", "\n", " ", " ", "S", "e", "c", "o", "n", "d",
       " ", "c", "o", "d", "e", " ", "s", "n", "i", "p", "p", "e", "t", "\n", "\n" >>

\* the input of Example 2 of the specification
Example2 ==
    << "/", "*", " ", "T", "h", "i", "r", "d", "\n", "E", "n", "d", " ", "*", "/", "\n" >>

\* the source of TestExtractSections
TestSource ==
    << "/", "/", " ", "T", "e", "s", "t", " ", "c", "o", "m", "m", "e", "n", "t", "\n",
       "/", "/", " ", "m", "o", "r", "e", " ", "c", "o", "m", "m", "e", "n", "t", "\n",
       "\n", "T", "e", "s", "t", " ", "c", "o", "d", "e", "\n", "M", "o", "r", "e", " ",
       "c", "o", "d", "e", "\n", "\n", "/", "/", " ", "S", "e", "c", "o", "n", "d", " ",
       "c", "o", "m", "m", "e", "n", "t", "\n", " ", " ", "S", "e", "c", "o", "n", "d",
       " ", "c", "o", "d", "e", " ", "s", "n", "i", "p", "p", "e", "t", "\n", "\n", "/",
       "*", " ", "T", "h", "i", "r", "d", " ", "c", "o", "m", "m", "e", "n", "t", "\n",
       "I", "n", " ", "c", "o", "m", "m", "e", "n", "t", " ", "s", "e", "c", "t", "i",
       "o", "n", "\n", "E", "n", "d", " ", "o", "f", " ", "c", "o", "m", "m", "e", "n",
       "t", " ", "*", "/", "\n" >>

Sources ==
    { Join(ls) : ls \in UNION { [1..n -> LinePalette] : n \in 1..MaxLines } }
        \cup { Example1, Example2, TestSource }

-----------------------------------------------------------------------------
(* The state machine: extractSections *)

\* generateDocs has returned nothing yet
NoDocs ==
    [kind |-> "none", full |-> FALSE, inlineCSS |-> FALSE, style |-> "",
     rows |-> << >>, text |-> << >>]

\* main is not running: extractSections is called alone
NoRun ==
    /\ args = << >>
    /\ argIdx = 0
    /\ mainpc = "none"
    /\ loads = 0
    /\ templ = "none"
    /\ style = ""
    /\ cwd = << "." >>
    /\ log = << >>
    /\ outputs = << >>

Init ==
    /\ intro \in BOOLEAN
    /\ source \in Sources
    /\ lines = << >>
    /\ i = 0
    /\ sections = << >>
    /\ current = NewSection
    /\ commentSectionInProgress = FALSE
    /\ branch = "none"
    /\ pc = "start"
    /\ result = << >>
    /\ raw = << >>
    /\ md = FALSE
    /\ bare = FALSE
    /\ inline = FALSE
    /\ installResources = FALSE
    /\ outdir = << "." >>
    /\ rendered = << >>
    /\ generated = NoDocs
    /\ NoRun

\* entry of extractSections: the locals and the range expression
extractStart ==
    /\ pc = "start"
    /\ lines' = Split(source)
    /\ i' = 1
    /\ sections' = << >>
    /\ current' = NewSection
    /\ commentSectionInProgress' = freshFlag(commentSectionInProgress)
    /\ branch' = "none"
    /\ pc' = "loop"
    /\ raw' = << << >> >>
    /\ UNCHANGED << source, result, rendered, generated, flagVars, mainVars >>

\* a directive line: continue
skipDirective ==
    /\ pc = "loop"
    /\ i <= Len(lines)
    /\ isDirective(lines[i])
    /\ i' = i + 1
    /\ branch' = "directive"
    /\ UNCHANGED << source, lines, sections, current, raw,
                    commentSectionInProgress, pc, result >>
    /\ UNCHANGED << rendered, generated, flagVars, mainVars >>

\* a line of a comment region
commentLine ==
    /\ pc = "loop"
    /\ i <= Len(lines)
    /\ ~isDirective(lines[i])
    /\ LET r == commentFinder(commentSectionInProgress, lines[i])
       IN  /\ r.isComment
           /\ commentSectionInProgress' = r.inProgress
           /\ IF inCodeGroup(current)
              THEN /\ sections' = Append(sections, current)
                   /\ current' = [NewSection EXCEPT !.Doc = @ \o docText(lines[i])]
                   /\ raw' = Append(raw, lines[i] \o << NL >>)
              ELSE /\ sections' = sections
                   /\ current' = [current EXCEPT !.Doc = @ \o docText(lines[i])]
                   /\ raw' = [raw EXCEPT ![Len(raw)] = @ \o lines[i] \o << NL >>]
    /\ i' = i + 1
    /\ branch' = "comment"
    /\ UNCHANGED << source, lines, pc, result >>
    /\ UNCHANGED << rendered, generated, flagVars, mainVars >>

\* a line outside any comment region, all lines being processed
codeLine ==
    /\ pc = "loop"
    /\ i <= Len(lines)
    /\ ~isDirective(lines[i])
    /\ LET r == commentFinder(commentSectionInProgress, lines[i])
       IN  /\ ~r.isComment
           /\ commentSectionInProgress' = r.inProgress
    /\ ~stopAtCode(intro)
    /\ current' = [current EXCEPT !.Code = @ \o codeText(lines[i])]
    /\ i' = i + 1
    /\ branch' = "code"
    /\ UNCHANGED << source, lines, sections, pc, result, raw >>
    /\ UNCHANGED << rendered, generated, flagVars, mainVars >>

\* a line outside any comment region with -intro: break, then return
introBreak ==
    /\ pc = "loop"
    /\ i <= Len(lines)
    /\ ~isDirective(lines[i])
    /\ LET r == commentFinder(commentSectionInProgress, lines[i])
       IN  /\ ~r.isComment
           /\ commentSectionInProgress' = r.inProgress
    /\ stopAtCode(intro)
    /\ branch' = "break"
    /\ result' = returnSections(sections, current)
    /\ rendered' = result'
    /\ pc' = "done"
    /\ UNCHANGED << source, lines, i, sections, current, raw >>
    /\ UNCHANGED << generated, flagVars, mainVars >>

\* the range is exhausted: return
extractReturn ==
    /\ pc = "loop"
    /\ i > Len(lines)
    /\ result' = returnSections(sections, current)
    /\ rendered' = result'
    /\ pc' = "done"
    /\ UNCHANGED << source, lines, i, sections, current, raw,
                    commentSectionInProgress, branch >>
    /\ UNCHANGED << generated, flagVars, mainVars >>

Next ==
    \/ extractStart
    \/ skipDirective
    \/ commentLine
    \/ codeLine
    \/ introBreak
    \/ extractReturn

Spec == Init /\ [][Next]_vars

\* longest single line that is extracted, in characters
MaxLineLen == 5

\* the characters of these lines
LineChars == {" ", "/", "*", "a"}

\* all lines of up to MaxLineLen characters
AllLines == UNION { [1..n -> LineChars] : n \in 0..MaxLineLen }

\* every such line as an input of its own, as the line after the start of a
\* block comment, and as the line after a directive
LineSources ==
    UNION { { l,
              Join(<< << "/", "*" >>, l >>),
              Join(<< << "/", "/", "g", "o", ":", "g" >>, l >>) } : l \in AllLines }

\* extractSections is called with one of these inputs
InitLines ==
    /\ intro \in BOOLEAN
    /\ source \in LineSources
    /\ lines = << >>
    /\ i = 0
    /\ sections = << >>
    /\ current = NewSection
    /\ commentSectionInProgress = FALSE
    /\ branch = "none"
    /\ pc = "start"
    /\ result = << >>
    /\ raw = << >>
    /\ md = FALSE
    /\ bare = FALSE
    /\ inline = FALSE
    /\ installResources = FALSE
    /\ outdir = << "." >>
    /\ rendered = << >>
    /\ generated = NoDocs
    /\ NoRun

SpecLines == InitLines /\ [][Next]_vars

-----------------------------------------------------------------------------
(* Rendering: highlightCode, markdownComments, markdownCode, joinSections *)

\* the vertical tab, the next-line character U+0085 and the no-break space
\* U+00A0, each a string of one character
VT == ""
NEL == ""
NBSP == " "

\* the white space characters above Latin-1, each written as a token that
\* stands for the one character
UnicodeSpaces ==
    { "<U+1680>", "<U+2000>", "<U+2001>", "<U+2002>", "<U+2003>", "<U+2004>",
      "<U+2005>", "<U+2006>", "<U+2007>", "<U+2008>", "<U+2009>", "<U+200A>",
      "<U+2028>", "<U+2029>", "<U+202F>", "<U+205F>", "<U+3000>" }

\* unicode.IsSpace
IsWhite(c) ==
    c \in {"\t", "\n", VT, "\f", "\r", " ", NEL, NBSP} \cup UnicodeSpaces

\* strings.TrimLeft(s, cutset)
RECURSIVE TrimLeft(_, _)
TrimLeft(s, cutset) ==
    IF s # << >> /\ Head(s) \in cutset THEN TrimLeft(Tail(s), cutset) ELSE s

\* strings.TrimRight(s, cutset)
RECURSIVE TrimRight(_, _)
TrimRight(s, cutset) ==
    IF s # << >> /\ s[Len(s)] \in cutset
    THEN TrimRight(SubSeq(s, 1, Len(s) - 1), cutset)
    ELSE s

\* strings.Trim(s, cutset)
Trim(s, cutset) == TrimRight(TrimLeft(s, cutset), cutset)

\* strings.TrimSpace(s)
TrimSpace(s) == Trim(s, { c \in { s[k] : k \in 1..Len(s) } : IsWhite(c) })

\* strings.Index(s, sub), counted from 0; -1 when sub does not occur
Index(s, sub) ==
    IF \E k \in 1..(Len(s) + 1) : HasAt(s, k, sub)
    THEN (CHOOSE k \in 1..(Len(s) + 1) :
              HasAt(s, k, sub) /\ \A j \in 1..(k - 1) : ~HasAt(s, j, sub)) - 1
    ELSE -1

\* the leading tabs and spaces dropped instead of returned
splitLeadingWs_dropWs(s) == << << >>, TrimLeft(s, {"\t", " "}) >>

\* splitLeadingWs(s): the leading tabs and spaces, and the rest
splitLeadingWs(s) ==
    LET code == TrimLeft(s, {"\t", " "})
    IN  << SubSeq(s, 1, Index(s, code)), code >>

\* h.Highlight(code) of litebrite: the markup is not modelled, the
\* highlighted text is the code between two marks
Highlight(code) == << "<hl>" >> \o code \o << "</hl>" >>

\* the Code taken as present whenever it is not the empty string
hasCode_notEmpty(s) == s # << >>

\* the test of highlightCode: the Code has more than whitespace and newlines
hasCode(s) == TrimSpace(Trim(s, {NL})) # << >>

\* the body of the loop of highlightCode, for one Code
highlightOne(s) ==
    IF hasCode(s)
    THEN splitLeadingWs(s)[1] \o Highlight(splitLeadingWs(s)[2])
    ELSE << >>

\* markdownString(input) of blackfriday: the markup is not modelled, the
\* rendered text is the input between two marks, and nothing for no input
markdownString(input) ==
    IF input = << >> THEN << >> ELSE << "<md>" >> \o input \o << "</md>" >>

\* the sections left as they are
markdownComments_none(secs) == secs

\* markdownComments(sections)
markdownComments(secs) ==
    [k \in 1..Len(secs) |-> [secs[k] EXCEPT !.Doc = markdownString(@)]]

\* the three backquotes of a code fence, as one character of the model
Fence == "<fence>"

\* the opening and the closing code fence
FenceOpen == << NL, Fence, "g", "o", NL >>
FenceClose == << Fence, NL >>

\* the body of the loop of markdownCode, for one Code
fenceOne(code) ==
    IF code # << NL >> THEN FenceOpen \o code \o FenceClose ELSE code

\* the sections joined with a newline after every section
RECURSIVE joinSections_newline(_)
joinSections_newline(secs) ==
    IF secs = << >> THEN << >>
    ELSE Head(secs).Doc \o Head(secs).Code \o << NL >>
             \o joinSections_newline(Tail(secs))

\* joinSections(sections): res += s.Doc; res += s.Code, section by section
RECURSIVE joinSections(_)
joinSections(secs) ==
    IF secs = << >> THEN << >>
    ELSE LET n == Len(secs)
         IN  joinSections(SubSeq(secs, 1, n - 1)) \o secs[n].Doc \o secs[n].Code

\* a cell of a row: its class and the text between its tags
Cell(class, text) == [class |-> class, text |-> text]

\* the row of a section with code, for every section
templRow_alwaysCode(sec) ==
    [class |-> "tr section",
     cells |-> << Cell("td doc", sec.Doc), Cell("td code", sec.Code) >>]

\* what the template emits for one section: a row of two cells, the doc
\* and the code, or ({{else}}) a row marked nocode whose doc cell is
\* marked nocode and whose second cell is emitted empty
templRow(sec) ==
    IF sec.Code # << >>
    THEN [class |-> "tr section",
          cells |-> << Cell("td doc", sec.Doc), Cell("td code", sec.Code) >>]
    ELSE [class |-> "tr section nocode",
          cells |-> << Cell("td doc nocode", sec.Doc),
                       Cell("td code empty", << >>) >>]

-----------------------------------------------------------------------------
(* The state machine: generateDocs *)

\* longest input that is rendered, in lines
MaxRenderLines == 3

\* the lines the rendered inputs are built from
RenderPalette ==
    { << >>,                                  \* an empty line
      << " " >>,                              \* a line of whitespace
      << "\t", "a" >>,                        \* indented code
      << VT >>,                               \* a vertical tab
      << "<U+2003>" >>,                       \* an em space
      << "a" >>,                              \* code
      << "/", "/", " ", "a" >>,               \* a single-line comment
      << "/", "*", "b", "*", "/" >>,          \* a block comment on one line
      << "/", "/", "g", "o", ":", "g" >> }    \* a directive

\* the inputs generateDocs is called with
RenderSources ==
    UNION { { Join(ls) : ls \in [1..n -> RenderPalette] } : n \in 1..MaxRenderLines }

\* generateDocs is called with a source and a set of flags, after
\* loadResources has parsed the template
InitRender ==
    /\ intro \in BOOLEAN
    /\ md \in BOOLEAN
    /\ bare \in BOOLEAN
    /\ inline = FALSE
    /\ installResources = FALSE
    /\ outdir = << "." >>
    /\ source \in RenderSources
    /\ lines = << >>
    /\ i = 0
    /\ sections = << >>
    /\ current = NewSection
    /\ commentSectionInProgress = FALSE
    /\ branch = "none"
    /\ pc = "start"
    /\ result = << >>
    /\ raw = << >>
    /\ rendered = << >>
    /\ generated = NoDocs
    /\ args = << >>
    /\ argIdx = 0
    /\ mainpc = "none"
    /\ loads = 1
    /\ templ = "goweave.templ"
    /\ style = ""
    /\ cwd = << "." >>
    /\ log = << >>
    /\ outputs = << >>

\* HTML target: highlightCode(sections)
highlightCode ==
    /\ pc = "done"
    /\ ~md
    /\ rendered' = [k \in 1..Len(rendered) |->
                       [rendered[k] EXCEPT !.Code = highlightOne(@)]]
    /\ pc' = "highlighted"
    /\ UNCHANGED << extractVars, flagVars, mainVars, generated >>

\* HTML target: markdownComments(sections)
markdownCommentsStep ==
    /\ pc = "highlighted"
    /\ rendered' = markdownComments(rendered)
    /\ pc' = "marked"
    /\ UNCHANGED << extractVars, flagVars, mainVars, generated >>

\* HTML target: templ.Execute gives the document
templExecute ==
    /\ pc = "marked"
    /\ templ # "none"
    /\ generated' = [kind |-> "html", full |-> ~bare, inlineCSS |-> inline,
                     style |-> style,
                     rows |-> [k \in 1..Len(rendered) |-> templRow(rendered[k])],
                     text |-> << >>]
    /\ pc' = "generated"
    /\ UNCHANGED << extractVars, flagVars, mainVars, rendered >>

\* Markdown target, without -intro: markdownCode(sections)
markdownCode ==
    /\ pc = "done"
    /\ md
    /\ ~intro
    /\ rendered' = [k \in 1..Len(rendered) |->
                       [rendered[k] EXCEPT !.Code = fenceOne(@)]]
    /\ pc' = "fenced"
    /\ UNCHANGED << extractVars, flagVars, mainVars, generated >>

\* Markdown target: joinSections(sections) gives the document
joinSectionsStep ==
    /\ md
    /\ pc = "fenced" \/ (pc = "done" /\ intro)
    /\ generated' = [kind |-> "md", full |-> FALSE, inlineCSS |-> FALSE,
                     style |-> "", rows |-> << >>,
                     text |-> joinSections(rendered)]
    /\ pc' = "generated"
    /\ UNCHANGED << extractVars, flagVars, mainVars, rendered >>

-----------------------------------------------------------------------------
(* The state machine: main and processFile *)

\* most files on the command line
MaxFiles == 3

\* the names that can be given on the command line: two files of the
\* working directory, a file of a directory, a file with a name of one byte
FileA == << "a", ".", "g", "o" >>
FileB == << "b", ".", "g", "o" >>
FileC == << "d", "/", "c", ".", "g", "o" >>
FileX == << "x" >>

Files == {FileA, FileB, FileC, FileX}

\* the content of the files
FileSource ==
    [ f \in Files |->
        CASE f = FileA -> Join(<< << "/", "/", "g", "o", ":", "g" >>,
                                  << "/", "/", " ", "a" >>, << "a" >> >>)
          [] f = FileB -> << >>
          [] f = FileC -> Join(<< << "/", "*", " ", "a" >>, << >> >>)
          [] f = FileX -> << "a" >> ]

\* a path without the slashes at its end
RECURSIVE StripSlashes(_)
StripSlashes(p) ==
    IF Len(p) > 0 /\ p[Len(p)] = "/"
    THEN StripSlashes(SubSeq(p, 1, Len(p) - 1))
    ELSE p

\* the position of the last slash of a path, 0 when it has none
LastSlash(p) ==
    IF \E k \in 1..Len(p) : p[k] = "/"
    THEN CHOOSE k \in 1..Len(p) :
             p[k] = "/" /\ \A m \in (k + 1)..Len(p) : p[m] # "/"
    ELSE 0

\* filepath.Base: the last element of a path
Base(p) ==
    IF p = << >> THEN << "." >>
    ELSE LET t == StripSlashes(p)
             e == SubSeq(t, LastSlash(t) + 1, Len(t))
         IN  IF e = << >> THEN << "/" >> ELSE e

\* the slice name[:len(name)-2] is in range
sliceOk(name) == Len(name) >= 2

\* the extension of the target
ext == IF md THEN << "m", "d" >> ELSE << "h", "t", "m", "l" >>

\* the directories given with -outdir: the default, the empty string, a
\* directory written with a slash at its end, the parent directory
OutDirs == { << "." >>, << >>, << "o", "/" >>, << ".", "." >> }

\* the elements of a path: what stands between its slashes, the empty
\* elements left out
RECURSIVE Components(_)
Components(p) ==
    IF p = << >> THEN << >>
    ELSE LET k == IF \E m \in 1..Len(p) : p[m] = "/"
                  THEN CHOOSE m \in 1..Len(p) :
                           p[m] = "/" /\ \A q \in 1..(m - 1) : p[q] # "/"
                  ELSE Len(p) + 1
             head == SubSeq(p, 1, k - 1)
         IN  (IF head = << >> THEN << >> ELSE << head >>)
                 \o Components(SubSeq(p, k + 1, Len(p)))

\* filepath.Clean, element by element: "." is dropped, ".." takes the
\* element before it away, or is kept at the start of a path that is not
\* rooted, or is dropped at the root
RECURSIVE cleanElements(_, _, _)
cleanElements(elems, out, rooted) ==
    IF elems = << >> THEN out
    ELSE LET e == Head(elems)
             n == Len(out)
         IN  cleanElements(Tail(elems),
                 CASE e = << "." >> -> out
                   [] e = << ".", "." >> ->
                          IF n > 0 /\ out[n] # << ".", "." >>
                          THEN SubSeq(out, 1, n - 1)
                          ELSE IF rooted THEN out ELSE Append(out, e)
                   [] OTHER -> Append(out, e),
                 rooted)

\* the elements of a path with a slash between them
RECURSIVE joinElements(_)
joinElements(elems) ==
    IF elems = << >> THEN << >>
    ELSE IF Len(elems) = 1 THEN elems[1]
    ELSE elems[1] \o << "/" >> \o joinElements(Tail(elems))

\* filepath.Clean: the shortest path that names the same file
Clean(p) ==
    IF p = << >> THEN << "." >>
    ELSE LET rooted == p[1] = "/"
             out == (IF rooted THEN << "/" >> ELSE << >>)
                        \o joinElements(cleanElements(Components(p), << >>, rooted))
         IN  IF out = << >> THEN << "." >> ELSE out

\* filepath.Join of two elements: the empty elements are ignored, the
\* others are joined with a slash and the result is cleaned
pathJoin(dir, elem) ==
    IF dir # << >> THEN Clean(dir \o << "/" >> \o elem)
    ELSE IF elem # << >> THEN Clean(elem)
    ELSE << >>

\* the name of the file that is written for a source file
outname(filename) ==
    LET name == Base(filename)
    IN  pathJoin(outdir, SubSeq(name, 1, Len(name) - 2)) \o ext

\* the command lines
ArgLists == UNION { [1..n -> Files] : n \in 0..MaxFiles }

\* the other content: what a file holds that is not in the directory main
\* started in
OtherSource == Join(<< << "/", "/", " ", "o" >>, << "b" >> >>)

\* the flag -csspath, left at its default
csspath == << >>

\* a path as the directory dir resolves it
resolve(dir, path) ==
    IF path # << >> /\ path[1] = "/" THEN Clean(path) ELSE pathJoin(dir, path)

\* the content ReadFile finds under a name while the working directory is
\* dir
fileAt(dir, filename) ==
    IF dir = << "." >> THEN FileSource[filename] ELSE OtherSource

\* an entry of the log of file system calls: the call, the position and the
\* name of the file it is made for (0 and no name for a call of main), the
\* working directory it is made in, whether it succeeded
Event(op, n, file, dir, ok) ==
    [op |-> op, n |-> n, file |-> file, dir |-> dir, ok |-> ok]

\* a failed step taken like a successful one
afterStep_ignoreError(ok, nextpc) == nextpc

\* where processFile goes on after a step: if err != nil { panic(...) }
afterStep(ok, nextpc) == IF ok THEN nextpc ELSE "aborted"

\* a failed load taken like a successful one
afterLoad_ignoreError(outcome) == "range"

\* where main goes on after loadResources, which panics when the
\* stylesheet cannot be read or the template cannot be parsed
afterLoad(outcome) == IF outcome = "ok" THEN "range" ELSE "aborted"

\* the document written without waiting for generateDocs
writeReady_early(p) == p \in {"start", "loop", "done", "generated"}

\* generateDocs has returned: processFile has the document to write
writeReady(p) == p = "generated"

\* main starts with a command line
InitMain ==
    /\ intro \in BOOLEAN
    /\ md \in BOOLEAN
    /\ bare \in BOOLEAN
    /\ inline \in BOOLEAN
    /\ installResources \in BOOLEAN
    /\ outdir \in OutDirs
    /\ args \in ArgLists
    /\ argIdx = 0
    /\ mainpc = "start"
    /\ loads = 0
    /\ templ = "none"
    /\ style = ""
    /\ cwd = << "." >>
    /\ log = << >>
    /\ outputs = << >>
    /\ source = << >>
    /\ lines = << >>
    /\ i = 0
    /\ sections = << >>
    /\ current = NewSection
    /\ commentSectionInProgress = FALSE
    /\ branch = "none"
    /\ pc = "idle"
    /\ result = << >>
    /\ raw = << >>
    /\ rendered = << >>
    /\ generated = NoDocs

\* main with -install: install the resources and return
installOnly ==
    /\ mainpc = "start"
    /\ installResources
    /\ \E ok \in BOOLEAN :
           /\ log' = Append(log, Event("install", 0, << >>, cwd, ok))
           /\ mainpc' = IF ok THEN "exit" ELSE "aborted"
    /\ UNCHANGED << extractVars, flagVars, pc, rendered, generated >>
    /\ UNCHANGED << args, argIdx, loads, templ, style, cwd, outputs >>

\* main: findResources finds the resource directory, or installs the
\* resources into ./goweave, or ends the run with log.Fatal
findResources ==
    /\ mainpc = "start"
    /\ ~installResources
    /\ \E outcome \in {"found", "installed", "fatal"} :
           /\ log' = IF outcome = "found" THEN log
                     ELSE Append(log, Event("install", 0, << >>, cwd, outcome = "installed"))
           /\ mainpc' = IF outcome = "fatal" THEN "aborted" ELSE "load"
    /\ UNCHANGED << extractVars, flagVars, pc, rendered, generated >>
    /\ UNCHANGED << args, argIdx, loads, templ, style, cwd, outputs >>

\* main: loadResources reads the stylesheet (with -inline) and parses the
\* template
loadResources ==
    /\ mainpc = "load"
    /\ \E outcome \in {"ok", "templFail"} \cup (IF inline THEN {"cssFail"} ELSE {}) :
           /\ style' = IF inline /\ outcome # "cssFail" THEN "goweave.css" ELSE style
           /\ templ' = IF outcome = "ok" THEN "goweave.templ" ELSE templ
           /\ log' = Append(log, Event("load", 0, << >>, cwd, outcome = "ok"))
           /\ mainpc' = afterLoad(outcome)
    /\ loads' = loads + 1
    /\ UNCHANGED << extractVars, flagVars, pc, rendered, generated >>
    /\ UNCHANGED << args, argIdx, cwd, outputs >>

\* main: the range loop takes the next file
nextFile ==
    /\ mainpc = "range"
    /\ argIdx < Len(args)
    /\ argIdx' = argIdx + 1
    /\ mainpc' = "read"
    /\ UNCHANGED << extractVars, flagVars, pc, rendered, generated >>
    /\ UNCHANGED << args, loads, templ, style, cwd, log, outputs >>

\* processFile: ioutil.ReadFile(filename), then the name of the output
\* is made from the base name without its last two bytes, which panics for
\* a base name of one byte, then generateDocs is called
readFile ==
    /\ mainpc = "read"
    /\ \E ok \in BOOLEAN :
           LET sliced == sliceOk(Base(args[argIdx]))
           IN  /\ log' = Append(log, Event("read", argIdx, args[argIdx], cwd, ok))
               /\ mainpc' = IF ok /\ ~sliced THEN "aborted"
                             ELSE afterStep(ok, "generate")
               /\ source' = IF ok THEN fileAt(cwd, args[argIdx]) ELSE source
               /\ pc' = IF ok /\ sliced THEN "start" ELSE pc
    /\ UNCHANGED << lines, i, sections, current, commentSectionInProgress,
                    branch, result, raw >>
    /\ UNCHANGED << flagVars, rendered, generated >>
    /\ UNCHANGED << args, argIdx, loads, templ, style, cwd, outputs >>

\* generateDocs panics: the highlighter, the Markdown renderer or the
\* execution of the template fails (HTML target), and nothing catches it;
\* within main the panic ends processFile and the run
renderPanic ==
    /\ mainpc \in {"none", "generate"}
    /\ ~md
    /\ pc \in {"done", "highlighted", "marked"}
    /\ pc' = "panicked"
    /\ IF mainpc = "generate"
       THEN /\ log' = Append(log, Event("render", argIdx, args[argIdx], cwd, FALSE))
            /\ mainpc' = afterStep(FALSE, "write")
       ELSE UNCHANGED << log, mainpc >>
    /\ UNCHANGED << extractVars, flagVars, rendered, generated >>
    /\ UNCHANGED << args, argIdx, loads, templ, style, cwd, outputs >>

\* processFile: docs := generateDocs(name, string(src)) has returned
docsReturn ==
    /\ mainpc = "generate"
    /\ writeReady(pc)
    /\ pc' = "idle"
    /\ log' = Append(log, Event("render", argIdx, args[argIdx], cwd, TRUE))
    /\ mainpc' = afterStep(TRUE, "write")
    /\ UNCHANGED << extractVars, flagVars, rendered, generated >>
    /\ UNCHANGED << args, argIdx, loads, templ, style, cwd, outputs >>

\* processFile: ioutil.WriteFile(outname, []byte(docs), 0666)
writeFile ==
    /\ mainpc = "write"
    /\ \E ok \in BOOLEAN :
           /\ log' = Append(log, Event("write", argIdx, args[argIdx], cwd, ok))
           /\ outputs' = IF ok
                         THEN Append(outputs, [n |-> argIdx, file |-> args[argIdx],
                                               source |-> source,
                                               outname |-> outname(args[argIdx]),
                                               path |-> resolve(cwd, outname(args[argIdx])),
                                               docs |-> generated])
                         ELSE outputs
           /\ mainpc' = afterStep(ok, IF inline THEN "range" ELSE "css")
    /\ UNCHANGED << extractVars, flagVars, pc, rendered, generated >>
    /\ UNCHANGED << args, argIdx, loads, templ, style, cwd >>

\* processFile: without -inline, copyCssFile(): os.Chdir(dst) makes the
\* destination the working directory, and it stays the working directory;
\* where Chdir fails the directory is made with MkdirAll and Chmod; then
\* the stylesheet is copied. Chdir and MkdirAll fail for the empty path.
copyCssFile ==
    /\ mainpc = "css"
    /\ LET dst == pathJoin(outdir, csspath)
       IN  \E chdir \in BOOLEAN, ok \in BOOLEAN :
               /\ dst = << >> => (~chdir /\ ~ok)
               /\ cwd' = IF chdir THEN resolve(cwd, dst) ELSE cwd
               /\ log' = Append(log, Event("css", argIdx, args[argIdx], cwd, ok))
               /\ mainpc' = afterStep(ok, "range")
    /\ UNCHANGED << extractVars, flagVars, pc, rendered, generated >>
    /\ UNCHANGED << args, argIdx, loads, templ, style, outputs >>

\* main: the range loop is over
mainReturn ==
    /\ mainpc = "range"
    /\ argIdx = Len(args)
    /\ mainpc' = "exit"
    /\ UNCHANGED << extractVars, flagVars, pc, rendered, generated >>
    /\ UNCHANGED << args, argIdx, loads, templ, style, cwd, log, outputs >>

\* generateDocs called alone
NextRender ==
    \/ extractStart
    \/ skipDirective
    \/ commentLine
    \/ codeLine
    \/ introBreak
    \/ extractReturn
    \/ highlightCode
    \/ markdownCommentsStep
    \/ templExecute
    \/ markdownCode
    \/ joinSectionsStep
    \/ renderPanic

SpecRender == InitRender /\ [][NextRender]_vars

\* main
NextMain ==
    \/ installOnly
    \/ findResources
    \/ loadResources
    \/ nextFile
    \/ readFile
    \/ extractStart
    \/ skipDirective
    \/ commentLine
    \/ codeLine
    \/ introBreak
    \/ extractReturn
    \/ highlightCode
    \/ markdownCommentsStep
    \/ templExecute
    \/ markdownCode
    \/ joinSectionsStep
    \/ renderPanic
    \/ docsReturn
    \/ writeFile
    \/ copyCssFile
    \/ mainReturn

SpecMain == InitMain /\ [][NextMain]_vars

-----------------------------------------------------------------------------
(* Properties *)

\* a step of the loop that handles the line at position i
LineStep == pc = "loop" /\ i <= Len(lines) /\ (i' # i \/ pc' # pc)

\* the indices of the lines that are not directives
Kept == { j \in 1..Len(lines) : ~directive(lines[j]) }

\* line j takes rule 2 of the classifier: it opens a block comment
Opens(j) == ~comment(lines[j]) /\ commentStart(lines[j])

\* line j takes rule 3 of the classifier: it closes a block comment
Closes(j) == ~comment(lines[j]) /\ ~commentStart(lines[j]) /\ commentEnd(lines[j])

\* C1: every line that is classified is classified by the first rule that
\* matches, in the order single-line pattern, block-start pattern, block-end
\* pattern, open block comment, otherwise; the flag changes as that rule
\* says. A line that matches no pattern while no block comment is open is
\* not a comment and leaves the flag cleared.
C1_RuleOrder ==
    [][ (LineStep /\ ~directive(lines[i])) =>
        LET l    == lines[i]
            st   == commentSectionInProgress
            st2  == commentSectionInProgress'
            isC  == branch' = "comment"
        IN  /\ branch' \in {"comment", "code", "break"}
            /\ IF comment(l) THEN isC /\ st2 = st
               ELSE IF commentStart(l) THEN isC /\ st2 = TRUE
               ELSE IF commentEnd(l) THEN isC /\ st2 = FALSE
               ELSE IF st THEN isC /\ st2 = st
               ELSE ~isC /\ st2 = FALSE ]_vars

\* C1 witness: "/* a", "a */" and "a" have been classified in this order:
\* rule 2 opened the block, rule 3 closed it, rule 5 classified the code line
C1_Witness ==
    /\ pc = "loop"
    /\ i = 4
    /\ Opens(1)
    /\ Closes(2)
    /\ lines[3] = << "a" >>
    /\ branch = "code"
    /\ ~commentSectionInProgress
    /\ current.Doc # << >>

\* C2: once a block-start line has opened a block comment, every following
\* line up to and including the first line that matches the end pattern is
\* a comment, and after that line the classifier is back outside the block
\* comment, so that the next line is classified by the normal rules.
C2_BlockClosure ==
    (pc = "loop" /\ i >= 3 /\ (i - 1) \in Kept) =>
        \A k \in Kept :
            (k < i - 1 /\ Opens(k)) =>
                LET ends  == { j \in Kept : j > k /\ commentEnd(lines[j]) }
                    first == IF ends = {} THEN Len(lines) + 1
                             ELSE CHOOSE j \in ends : \A m \in ends : j <= m
                IN  /\ i - 1 <= first => branch = "comment"
                    /\ i - 1 = first => ~commentSectionInProgress

\* C3: while the loop runs, the current section is pushed and replaced by a
\* fresh one if and only if the line handled is a comment line that is not a
\* directive and the Code of the current section is not empty; sections
\* changes in no other way.
C3_SplitIff ==
    [][ pc = "loop" =>
        LET onComment == /\ LineStep
                         /\ ~directive(lines[i])
                         /\ branch' = "comment"
                         /\ current.Code # << >>
            started   == /\ sections' = Append(sections, current)
                         /\ current'.Code = << >>
        IN  /\ started <=> onComment
            /\ ~onComment => sections' = sections ]_vars

\* C3 witness: a comment line after code has started the second section,
\* and a further comment line has been added to it without a new split
C3_Witness ==
    /\ pc = "loop"
    /\ Len(sections) = 1
    /\ sections[1].Code # << >>
    /\ branch = "comment"
    /\ i >= 3
    /\ comment(lines[i - 1])
    /\ comment(lines[i - 2])
    /\ current.Code = << >>

\* C4: a directive line is skipped before it is classified: it adds nothing
\* to Doc or Code, starts no section and leaves the classifier flag as it
\* was, inside an open block comment too.
C4_DirectiveSkipped ==
    [][ (LineStep /\ directive(lines[i])) =>
        /\ i' = i + 1
        /\ UNCHANGED << sections, current, commentSectionInProgress, pc, result >> ]_vars

\* C4 witness: a directive line has been skipped inside an open block comment
\* of a section
C4_Witness ==
    /\ pc = "loop"
    /\ branch = "directive"
    /\ commentSectionInProgress
    /\ current.Doc # << >>
    /\ i >= 3
    /\ directive(lines[i - 1])

\* C5: extractSections returns at least one section, for the empty input and
\* with -intro too: the current section is pushed last whatever it holds;
\* the sections are in source order, the lines being consumed in order and
\* a section being added behind the earlier ones only.
C5_NeverEmpty ==
    /\ [](pc = "done" =>
            /\ Len(result) >= 1
            /\ result[Len(result)] = current
            /\ SubSeq(result, 1, Len(result) - 1) = sections)
    /\ [][ pc = "loop" =>
            /\ i' \in {i, i + 1}
            /\ sections' \in {sections, Append(sections, current)} ]_vars

\* C5 witness: the empty input has returned one section with nothing in it
C5_Witness ==
    /\ pc = "done"
    /\ source = << >>
    /\ result = << NewSection >>

\* a block comment is open after line j, as the language has it: a line
\* that starts with /* opens one unless it ends with */, and a line that
\* ends with */ closes the one that is open
RECURSIVE OpenAfter(_)
OpenAfter(j) ==
    IF j = 0 THEN FALSE
    ELSE LET l == lines[j]
             t == TrimRight(l, {" ", "\t"})
             ends == HasAt(t, Len(t) - 1, << "*", "/" >>)
         IN  IF OpenAfter(j - 1) THEN ~ends
             ELSE commentStart(l) /\ ~ends

\* line j is a comment line, as the language has it
CommentLineAt(j) ==
    OpenAfter(j - 1) \/ comment(lines[j]) \/ commentStart(lines[j])

\* the first line that is neither a directive nor a comment line (one past
\* the last line when there is none)
LeadingEnd ==
    LET codes == { j \in Kept : ~CommentLineAt(j) }
    IN  IF codes = {} THEN Len(lines) + 1
        ELSE CHOOSE j \in codes : \A m \in codes : j <= m

\* the stripped text of the leading comment block, from line j on
RECURSIVE LeadingBlock(_)
LeadingBlock(j) ==
    IF j >= LeadingEnd THEN << >>
    ELSE (IF j \in Kept THEN allCommentDelims(lines[j]) \o << NL >> ELSE << >>)
         \o LeadingBlock(j + 1)

\* line j is the last line of a block comment, as the language has it
BlockCloseAt(j) ==
    (OpenAfter(j - 1) \/ commentStart(lines[j])) /\ ~OpenAfter(j)

\* the source is one the language accepts as far as comments go: a line
\* ends with */ only where it is a comment line
EndsInComments ==
    \A j \in 1..Len(lines) : commentEnd(lines[j]) => CommentLineAt(j)

\* line j is the first line of a comment group that follows code
StartsSection(j) ==
    /\ j \in Kept
    /\ CommentLineAt(j)
    /\ \E q \in Kept :
        /\ q < j
        /\ ~CommentLineAt(q)
        /\ \A m \in Kept : ~(q < m /\ m < j)

\* the number of the section line j goes to
SectionOf(j) == 1 + Cardinality({ k \in Kept : k <= j /\ StartsSection(k) })

\* the Doc (isDoc) or the Code (~isDoc) of section s, from line j on
RECURSIVE GroupText(_, _, _)
GroupText(s, isDoc, j) ==
    IF j > Len(lines) THEN << >>
    ELSE (IF j \in Kept /\ SectionOf(j) = s /\ CommentLineAt(j) = isDoc
          THEN (IF isDoc THEN allCommentDelims(lines[j]) ELSE lines[j]) \o << NL >>
          ELSE << >>)
         \o GroupText(s, isDoc, j + 1)

\* one section per comment group followed by code, in source order
GroupedSections ==
    [ s \in 1..(1 + Cardinality({ k \in Kept : StartsSection(k) })) |->
        [Doc |-> GroupText(s, TRUE, 1), Code |-> GroupText(s, FALSE, 1)] ]

\* the sections TestExtractSections wants
TestWant ==
    << [Doc  |->
            << "T", "e", "s", "t", " ", "c", "o", "m", "m", "e", "n", "t", "\n", "m", "o", "r",
               "e", " ", "c", "o", "m", "m", "e", "n", "t", "\n" >>,
        Code |->
            << "\n", "T", "e", "s", "t", " ", "c", "o", "d", "e", "\n", "M", "o", "r", "e", " ",
               "c", "o", "d", "e", "\n", "\n" >>],
       [Doc  |->
            << "S", "e", "c", "o", "n", "d", " ", "c", "o", "m", "m", "e", "n", "t", "\n" >>,
        Code |->
            << " ", " ", "S", "e", "c", "o", "n", "d", " ", "c", "o", "d", "e", " ", "s", "n",
               "i", "p", "p", "e", "t", "\n", "\n" >>],
       [Doc  |->
            << "T", "h", "i", "r", "d", " ", "c", "o", "m", "m", "e", "n", "t", "\n", "I", "n",
               " ", "c", "o", "m", "m", "e", "n", "t", " ", "s", "e", "c", "t", "i", "o", "n",
               "\n", "E", "n", "d", " ", "o", "f", " ", "c", "o", "m", "m", "e", "n", "t", "\n" >>,
        Code |-> << "\n" >>] >>

\* C6: with all lines processed, extractSections returns one section per
\* comment group followed by code, in source order: Doc holds the stripped
\* comment lines (the // lines and the lines of the /*...*/ blocks, as
\* the language has them) and Code the lines that follow, blank lines
\* included, each line ended by one newline; when the source ends with a
\* newline right after the last line of a block comment, the Code of the
\* last section is "\n"; the source of TestExtractSections gives the three
\* sections the test wants. Stated for the sources in which */ stands on
\* comment lines only.
C6_SectionPerGroup ==
    (pc = "done" /\ ~intro /\ EndsInComments) =>
        LET n == Len(lines)
        IN  /\ result = GroupedSections
            /\ (n >= 2 /\ lines[n] = << >> /\ (n - 1) \in Kept /\ BlockCloseAt(n - 1))
                   => result[Len(result)].Code = << NL >>
            /\ source = TestSource => result = TestWant

\* the first two sections of Example 1, with the Code the specification gives
\* to the second one
Example1Spec ==
    << TestWant[1], TestWant[2] >>

\* the second section of Example 1 as extracted: both empty lines that end
\* the input belong to its Code
Example1Code2 ==
    << " ", " ", "S", "e", "c", "o", "n", "d", " ", "c", "o", "d", "e", " ", "s", "n",
       "i", "p", "p", "e", "t", "\n", "\n", "\n" >>

\* C7 as stated: Example 1 yields three sections, the last one with empty
\* Doc and Code.
C7_Example1_AsStated ==
    (pc = "done" /\ ~intro /\ source = Example1) =>
        result = Example1Spec \o << NewSection >>

\* C7: Example 1 yields two sections, the second with Code
\* "  Second code snippet\n\n\n", and no trailing empty section.
C7_Example1 ==
    (pc = "done" /\ ~intro /\ source = Example1) =>
        result = << TestWant[1], [TestWant[2] EXCEPT !.Code = Example1Code2] >>

\* C7 witness: Example 1 has been extracted with all lines processed
C7_Witness ==
    /\ pc = "done"
    /\ ~intro
    /\ source = Example1
    /\ Len(lines) = 10
    /\ Len(result) = 2

\* the Doc of Example 2
Example2Doc ==
    << "T", "h", "i", "r", "d", "\n", "E", "n", "d", "\n" >>

\* C8 as stated: Example 2 yields a single section with Doc "Third\nEnd\n"
\* and empty Code.
C8_Example2_AsStated ==
    (pc = "done" /\ source = Example2) =>
        result = << [Doc |-> Example2Doc, Code |-> << >>] >>

\* C8: Example 2 yields a single section with Doc "Third\nEnd\n"; its Code
\* is "\n", the empty line after the final newline, and is empty with -intro
\* only.
C8_Example2 ==
    (pc = "done" /\ source = Example2) =>
        result = << [Doc  |-> Example2Doc,
                     Code |-> IF intro THEN << >> ELSE << NL >>] >>

\* C8 witness: Example 2 has been extracted with all three lines processed
C8_Witness ==
    /\ pc = "done"
    /\ ~intro
    /\ source = Example2
    /\ Len(lines) = 3
    /\ branch = "code"
    /\ Len(result) = 1

\* C9: with -intro, extractSections stops at the first line that is neither
\* a directive nor a comment line, as the language has it, adds nothing for
\* it and reads no later line: it returns one section, with the stripped
\* leading comment block as Doc and empty Code, which the lines after the
\* stop do not influence. Stated for the sources in which */ stands on
\* comment lines only.
C9_IntroOnly ==
    (pc = "done" /\ intro /\ EndsInComments) =>
        /\ i = LeadingEnd
        /\ branch = "break" <=> LeadingEnd <= Len(lines)
        /\ Len(result) = 1
        /\ result[1].Code = << >>
        /\ result[1].Doc = LeadingBlock(1)

\* the number of newlines of a text
CountNL(s) == Cardinality({ k \in 1..Len(s) : s[k] = NL })

\* Doc and Code of all sections, one after the other
RECURSIVE AllText(_)
AllText(secs) ==
    IF secs = << >> THEN << >>
    ELSE Head(secs).Doc \o Head(secs).Code \o AllText(Tail(secs))

\* C10: with all lines processed, Doc and Code of all sections together hold
\* as many newline-terminated lines as the source has lines (the pieces
\* between its newlines), directive lines not counted.
C10_LineCount ==
    (pc = "done" /\ ~intro) =>
        CountNL(AllText(result))
            = CountNL(source) + 1
                - Cardinality({ j \in 1..Len(lines) : directive(lines[j]) })

\* C10 witness: an input with a directive line, comment lines and code lines
\* has been extracted into several sections
C10_Witness ==
    /\ pc = "done"
    /\ ~intro
    /\ Len(lines) = MaxLines
    /\ Kept # 1..Len(lines)
    /\ Len(result) >= 2
    /\ result[1].Doc # << >>

\* the lines of the source that are not directives, in order
KeptLines == SelectSeq(lines, LAMBDA l : ~directive(l))

\* the unstripped Doc lines and the Code of the sections from k on
RECURSIVE RawFrom(_)
RawFrom(k) ==
    IF k > Len(result) \/ k > Len(raw) THEN << >>
    ELSE raw[k] \o result[k].Code \o RawFrom(k + 1)

\* C11 as stated: without -intro, the unstripped Doc lines and the Code of
\* all sections, concatenated in section order, are the source text without
\* its directive lines.
C11_RawText_AsStated ==
    (pc = "done" /\ ~intro) => RawFrom(1) = Join(KeptLines)

\* C11: without -intro, the unstripped Doc lines and the Code of all
\* sections, concatenated in section order, are the source text without its
\* directive lines followed by one more newline (every line that is kept
\* ends with a newline, the last one too); with no line kept they are empty.
C11_RawText ==
    (pc = "done" /\ ~intro) =>
        /\ Len(raw) = Len(result)
        /\ RawFrom(1)
            = Join(KeptLines) \o (IF KeptLines = << >> THEN << >> ELSE << NL >>)

\* C11 witness: a source with a directive line, a comment line and a code
\* line has been extracted without -intro into more than one section
C11_Witness ==
    /\ pc = "done"
    /\ ~intro
    /\ Len(result) > 1
    /\ \E j \in 1..Len(lines) : directive(lines[j])
    /\ \E k \in 1..Len(result) : raw[k] # << >> /\ raw[k] # result[k].Doc
    /\ \E k \in 1..Len(result) : Len(result[k].Code) > 1

\* the text s has only whitespace and newlines (or nothing at all)
OnlyWhite(s) == \A k \in 1..Len(s) : IsWhite(s[k])

\* highlightCode has run on the sections of the HTML target
Highlighted == ~md /\ pc \in {"highlighted", "marked", "generated"}

\* C12: in the HTML target, after highlightCode, every section whose Code
\* was empty or only whitespace and newlines has the empty string as Code,
\* and every section whose Code had another character has a Code that is
\* not empty.
C12_EmptyCode ==
    Highlighted =>
        /\ Len(rendered) = Len(result)
        /\ \A k \in 1..Len(result) :
               /\ OnlyWhite(result[k].Code) => rendered[k].Code = << >>
               /\ ~OnlyWhite(result[k].Code) => rendered[k].Code # << >>

\* C12 witness: highlightCode has emptied a Code of several whitespace
\* characters and has kept a Code with indented code
C12_Witness ==
    /\ Highlighted
    /\ \E k \in 1..Len(result) :
           /\ Len(result[k].Code) >= 2
           /\ \E m \in 1..Len(result[k].Code) : result[k].Code[m] = " "
           /\ OnlyWhite(result[k].Code)
           /\ rendered[k].Code = << >>
    /\ \E k \in 1..Len(result) :
           /\ ~OnlyWhite(result[k].Code)
           /\ Head(result[k].Code) = "\t"
           /\ rendered[k].Code # << >>

\* a line that is a whole comment: a // line that is no directive, or a
\* block comment that starts and ends on the line
WholeComment(l) ==
    \/ comment(l) /\ ~directive(l)
    \/ HasAt(l, 1, << "/", "*" >>) /\ HasAt(l, Len(l) - 1, << "*", "/" >>)

\* C13: in the HTML target (without -intro), when the source starts with a
\* comment that is followed by an empty line and then by another comment,
\* the two comments are in two sections, and the first section has the Code
\* "\n" after extraction, the empty Code after highlightCode, and the row
\* the template emits for a section without code.
C13_FullWidth ==
    ( /\ pc = "generated"
      /\ ~md
      /\ ~intro
      /\ Len(lines) >= 3
      /\ WholeComment(lines[1])
      /\ lines[2] = << >>
      /\ WholeComment(lines[3]) )
    => /\ Len(result) >= 2
       /\ result[1].Doc = allCommentDelims(lines[1]) \o << NL >>
       /\ result[1].Code = << NL >>
       /\ rendered[1].Code = << >>
       /\ generated.rows[1].class = "tr section nocode"
       /\ generated.rows[1].cells[2] = Cell("td code empty", << >>)

\* markdownCode has run on the sections of the Markdown target
Fenced == md /\ ~intro /\ pc \in {"fenced", "generated"}

\* C14: in the Markdown target, markdownCode puts every Code that is not
\* empty and not "\n" into a go code fence, and leaves the Code "\n" and the
\* empty Code as they are.
C14_MarkdownCode ==
    Fenced =>
        /\ Len(rendered) = Len(result)
        /\ \A k \in 1..Len(result) :
               IF result[k].Code \in { << >>, << NL >> }
               THEN rendered[k].Code = result[k].Code
               ELSE rendered[k].Code
                        = FenceOpen \o result[k].Code \o FenceClose

\* the length of Doc and Code of the first n sections
RECURSIVE LenUpTo(_, _)
LenUpTo(secs, n) ==
    IF n = 0 THEN 0
    ELSE LenUpTo(secs, n - 1) + Len(secs[n].Doc) + Len(secs[n].Code)

\* the text t is Doc and Code of every section, in order, nothing between
IsConcat(t, secs) ==
    /\ Len(t) = LenUpTo(secs, Len(secs))
    /\ \A k \in 1..Len(secs) :
           LET o == LenUpTo(secs, k - 1)
               d == Len(secs[k].Doc)
           IN  /\ SubSeq(t, o + 1, o + d) = secs[k].Doc
               /\ SubSeq(t, o + d + 1, o + d + Len(secs[k].Code)) = secs[k].Code

\* C15: joinSections gives Doc and Code of every section, in the order of
\* the sections, with nothing between the fields and nothing between the
\* sections; for no section it gives the empty string.
C15_JoinSections ==
    /\ joinSections(<< >>) = << >>
    /\ (md /\ pc = "generated") =>
           /\ generated.text = joinSections(rendered)
           /\ IsConcat(generated.text, rendered)

\* C15 witness: joinSections has joined several sections that have a Doc
\* and a Code
C15_Witness ==
    /\ md
    /\ pc = "generated"
    /\ Len(rendered) > 1
    /\ \A k \in 1..Len(rendered) :
           rendered[k].Doc # << >> /\ rendered[k].Code # << >>

\* C16 as stated: for both targets, the Doc of every section that reaches
\* the output is what the Markdown renderer gives for the Doc extracted.
C16_DocRendered_AsStated ==
    pc = "generated" =>
        \A k \in 1..Len(result) :
            rendered[k].Doc = markdownString(result[k].Doc)

\* C16: in the HTML target, the Doc of every section that reaches the
\* output is what the Markdown renderer gives for the Doc extracted for
\* that section alone; in the Markdown target the Doc reaches the output as
\* it was extracted, the renderer is not run.
C16_DocRendered ==
    pc = "generated" =>
        /\ Len(rendered) = Len(result)
        /\ \A k \in 1..Len(result) :
               /\ ~md => /\ rendered[k].Doc = markdownString(result[k].Doc)
                         /\ generated.rows[k].cells[1].text = markdownString(result[k].Doc)
               /\ md => rendered[k].Doc = result[k].Doc
        /\ md => generated.text = joinSections(
                     [k \in 1..Len(result) |->
                         [Doc |-> result[k].Doc, Code |-> rendered[k].Code]])

\* C16 witness: an HTML document has been generated from several sections
\* with different Docs
C16_Witness ==
    /\ pc = "generated"
    /\ ~md
    /\ Len(result) > 1
    /\ result[1].Doc # << >>
    /\ result[2].Doc # << >>
    /\ result[1].Doc # result[2].Doc
    /\ generated.rows[1].cells[1].text # generated.rows[2].cells[1].text

\* C17: the template emits one row for every section, in the order of the
\* sections, each with a doc cell that holds the rendered Doc; a section has
\* the row of two columns (class "tr section", cells "td doc" and "td code",
\* the code cell holding the Code) exactly when its rendered Code is not the
\* empty string, and the row that does not show its Code (class
\* "tr section nocode", doc cell "td doc nocode", the other cell emitted
\* empty with class "td code empty", for the style sheet to give the doc
\* cell the full width) exactly when its Code is the empty string.
C17_Rows ==
    (~md /\ pc = "generated") =>
        /\ Len(generated.rows) = Len(rendered)
        /\ \A k \in 1..Len(rendered) :
               LET row == generated.rows[k]
               IN  /\ Len(row.cells) = 2
                   /\ row.cells[1].text = rendered[k].Doc
                   /\ row.class \in {"tr section", "tr section nocode"}
                   /\ row.class = "tr section" <=> rendered[k].Code # << >>
                   /\ row.class = "tr section" =>
                          /\ row.cells[1].class = "td doc"
                          /\ row.cells[2] = Cell("td code", rendered[k].Code)
                   /\ row.class = "tr section nocode" =>
                          /\ row.cells[1].class = "td doc nocode"
                          /\ row.cells[2] = Cell("td code empty", << >>)

\* C17 witness: the template has emitted a row with a code cell and a row
\* marked nocode
C17_Witness ==
    /\ ~md
    /\ pc = "generated"
    /\ \E k \in 1..Len(rendered) :
           /\ rendered[k].Code # << >>
           /\ generated.rows[k].cells[2].class = "td code"
    /\ \E k \in 1..Len(rendered) :
           /\ rendered[k].Code = << >>
           /\ generated.rows[k].cells[2].class = "td code empty"

\* the calls made for the files, in the order they were made
FileEvents ==
    SelectSeq(log, LAMBDA e : e.op \in {"read", "render", "write", "css"})

\* the call f is the one that has to come after the call e: the next step
\* of the same file, or the read of the next file after the last step
Follows(e, f) ==
    /\ e.ok
    /\ CASE e.op = "read"   -> f.op = "render" /\ f.n = e.n
         [] e.op = "render" -> f.op = "write" /\ f.n = e.n
         [] e.op = "write"  -> IF inline
                               THEN f.op = "read" /\ f.n = e.n + 1
                               ELSE f.op = "css" /\ f.n = e.n
         [] e.op = "css"    -> f.op = "read" /\ f.n = e.n + 1

\* C18: the files are processed in the order of the command line, each one
\* read, rendered and written (and its stylesheet copied) before the next
\* one is read; a step that fails is the last step of the run: the run is
\* aborted and no later file is read or written. A run is aborted only by
\* a failed step or, after a successful read, by a base name too short to
\* cut the two bytes of its extension from.
C18_InOrder ==
    LET E == FileEvents
    IN  /\ E # << >> => E[1].op = "read" /\ E[1].n = 1
        /\ \A j \in 1..Len(E) :
               E[j].n \in 1..Len(args) /\ E[j].file = args[E[j].n]
        /\ \A j \in 1..(Len(E) - 1) : Follows(E[j], E[j + 1])
        /\ \A j \in 1..Len(log) :
               ~log[j].ok => j = Len(log) /\ mainpc = "aborted"
        /\ \A k \in 1..Len(outputs) :
               outputs[k].n = k /\ outputs[k].file = args[k]
        /\ mainpc = "aborted" =>
               /\ log # << >>
               /\ \/ ~log[Len(log)].ok
                  \/ /\ log[Len(log)].op = "read"
                     /\ Len(Base(log[Len(log)].file)) < 2
        /\ (mainpc = "exit" /\ ~installResources) => Len(outputs) = Len(args)

\* C18 witness: with two different files on the command line, the first
\* one has been read, rendered and written, and the copy of its stylesheet
\* has failed: the run is aborted and the second file is not read
C18_Witness ==
    /\ Len(args) = 2
    /\ args[1] # args[2]
    /\ mainpc = "aborted"
    /\ Len(outputs) = 1
    /\ Len(FileEvents) = 4
    /\ log[Len(log)] = Event("css", 1, args[1], << "." >>, FALSE)

\* C19: an output document is written only after generateDocs has returned
\* for that file, and it is the complete document generateDocs returned;
\* when the rendering of a file fails, the run ends there and no output
\* document is written for that file.
C19_NoPartialOutput ==
    /\ \A j \in 1..Len(log) :
           log[j].op = "write" =>
               /\ j > 1
               /\ log[j - 1] = Event("render", log[j].n, log[j].file, log[j].dir, TRUE)
    /\ \A j \in 1..Len(log) :
           (log[j].op = "render" /\ ~log[j].ok) =>
               /\ j = Len(log)
               /\ \A k \in 1..Len(outputs) : outputs[k].n # log[j].n
               /\ Len(outputs) = log[j].n - 1
    /\ \A k \in 1..Len(outputs) :
           /\ outputs[k].docs.kind = (IF md THEN "md" ELSE "html")
           /\ outputs[k].n = argIdx =>
                  /\ outputs[k].docs = generated
                  /\ ~md => Len(generated.rows) = Len(rendered)
                  /\ md => generated.text = joinSections(rendered)

\* C19 witness: the first file has been written, and the rendering of the
\* second file has failed after highlightCode: there is no second output
C19_Witness ==
    /\ Len(args) = 2
    /\ pc = "panicked"
    /\ mainpc = "aborted"
    /\ log[Len(log)].op = "render"
    /\ log[Len(log)].n = 2
    /\ log[Len(log)].file = args[2]
    /\ ~log[Len(log)].ok
    /\ Len(outputs) = 1
    /\ outputs[1].n = 1

\* the template and the stylesheet are as loadResources has to leave them
Loaded ==
    /\ loads = 1
    /\ templ = "goweave.templ"
    /\ style = (IF inline THEN "goweave.css" ELSE "")

\* main is processing the files
Processing == mainpc \in {"range", "read", "generate", "write", "css"}

\* what has to hold in every state for C20
C20_Inv ==
    /\ loads <= 1
    /\ loads = Len(SelectSeq(log, LAMBDA e : e.op = "load"))
    /\ (Processing \/ FileEvents # << >>) => Loaded
    /\ \A j \in 1..Len(log) :
           log[j].op \in {"read", "render", "write", "css"} =>
               \E k \in 1..(j - 1) : log[k] = Event("load", 0, << >>, << "." >>, TRUE)
    /\ \A j \in 1..Len(log) :
           (log[j].op = "load" /\ ~log[j].ok) =>
               /\ j = Len(log)
               /\ mainpc = "aborted"
               /\ FileEvents = << >>
               /\ outputs = << >>
    /\ \A k \in 1..Len(outputs) :
           outputs[k].docs.kind = "html" => outputs[k].docs.style = style

\* C20: the template (and, with -inline, the stylesheet) is loaded once,
\* before the first file is read, and no step changes it while the files
\* are processed; when it cannot be loaded, the run is aborted with no
\* file read and no output written. (With -install main returns before
\* loading, and processes no file.)
C20_LoadOnce ==
    /\ []C20_Inv
    /\ [][Processing => (templ' = templ /\ style' = style /\ loads' = loads)]_vars

\* C20 witness: with -inline, two files have been processed with the
\* template and the stylesheet of the one load
C20_Witness ==
    /\ inline
    /\ ~md
    /\ Loaded
    /\ mainpc = "exit"
    /\ Len(outputs) = 2
    /\ outputs[1].docs.style = "goweave.css"
    /\ outputs[2].docs.style = "goweave.css"

\* C21: every call of extractSections starts with a classifier whose flag is
\* cleared and with no section, whatever the files before have left; the
\* documents written for the same text read, at different places of the
\* command line, are the same, also with a file in between that ends
\* inside a block comment. (The text is the one ReadFile returned: which
\* file a name stands for depends on the working directory of that moment.)
C21_FreshClassifier ==
    /\ (mainpc = "generate" /\ pc = "loop" /\ i = 1) =>
           /\ ~commentSectionInProgress
           /\ sections = << >>
           /\ current = NewSection
    /\ \A k, m \in 1..Len(outputs) :
           outputs[k].source = outputs[m].source => outputs[k].docs = outputs[m].docs

\* C21 witness: a file with a comment line and a code line has been
\* processed before and after a file that ends inside a block comment
C21_Witness ==
    /\ args = << FileA, FileC, FileA >>
    /\ mainpc = "exit"
    /\ Len(outputs) = 3
    /\ outputs[1].source = FileSource[FileA]
    /\ outputs[2].source = FileSource[FileC]
    /\ outputs[3].source = FileSource[FileA]
    /\ outputs[1].docs = outputs[3].docs
    /\ outputs[1].docs # outputs[2].docs

\* line j starts a block comment that no later line ends
Unterminated(j) ==
    /\ j \in 1..Len(lines)
    /\ commentStart(lines[j])
    /\ \A m \in (j + 1)..Len(lines) : ~commentEnd(lines[m])

\* the lines from j on that are not directives, delimiters removed, each
\* with its newline
RECURSIVE DocFrom(_)
DocFrom(j) ==
    IF j > Len(lines) THEN << >>
    ELSE (IF directive(lines[j]) THEN << >>
          ELSE allCommentDelims(lines[j]) \o << NL >>) \o DocFrom(j + 1)

\* the text t ends with the text s
EndsWith(t, s) ==
    Len(s) <= Len(t) /\ SubSeq(t, Len(t) - Len(s) + 1, Len(t)) = s

\* C22: when a line starts a block comment and no later line matches the
\* end pattern, then from that line on (when -intro has not stopped the
\* loop before it) the flag stays set to the end of the input, every later
\* line that is not a directive is taken as comment and goes to Doc, and no
\* Code is added after that line: the last section holds all these lines as
\* Doc and has no Code. The extraction ends normally.
C22_Unterminated ==
    \A j \in 1..Len(lines) :
        Unterminated(j) =>
            /\ (pc = "loop" /\ i > j) =>
                   /\ commentSectionInProgress
                   /\ branch \in {"comment", "directive"}
                   /\ current.Code = << >>
            /\ (pc = "done" /\ i > j) =>
                   /\ branch # "break"
                   /\ i = Len(lines) + 1
                   /\ result[Len(result)].Code = << >>
                   /\ EndsWith(result[Len(result)].Doc, DocFrom(j))

\* C22 witness: after a code line, a block comment has been started and
\* never ended; a line that looks like code and a // line follow it
C22_Witness ==
    /\ pc = "done"
    /\ Len(lines) = 4
    /\ lines[1] = << "a" >>
    /\ Unterminated(2)
    /\ lines[3] = << "a" >>
    /\ comment(lines[4])
    /\ Len(result) = 2

\* a line that starts a block comment and ends it
OneLineBlock(l) ==
    /\ Len(l) >= 4
    /\ HasAt(l, 1, << "/", "*" >>)
    /\ HasAt(l, Len(l) - 1, << "*", "/" >>)

\* a line that matches none of the patterns
PlainLine(l) ==
    ~comment(l) /\ ~commentStart(l) /\ ~commentEnd(l) /\ ~directive(l)

\* C23: a line that starts a block comment and ends it on the same line is
\* a comment and leaves the flag cleared, so that a line after it that
\* matches no pattern is not a comment.
C23_OneLineBlock ==
    pc = "loop" =>
        /\ (i >= 2 /\ OneLineBlock(lines[i - 1])) =>
               branch = "comment" /\ ~commentSectionInProgress
        /\ (i >= 3 /\ OneLineBlock(lines[i - 2]) /\ PlainLine(lines[i - 1])) =>
               branch = "code"

\* the line without an indented // or /* at its start and without the one
\* whitespace character that may follow it
StripLead(l) ==
    LET t == TrimLeft(l, {" ", "\t", "\n", "\f", "\r"})
    IN  IF HasAt(t, 1, << "/", "/" >>) \/ HasAt(t, 1, << "/", "*" >>)
        THEN (LET r == SubSeq(t, 3, Len(t))
              IN  IF r # << >> /\ IsSpace(Head(r)) THEN Tail(r) ELSE r)
        ELSE l

\* the text without a */ at its end, the whitespace after it and the one
\* whitespace character that may precede it
StripTrail(x) ==
    LET t == TrimRight(x, {" ", "\t", "\n", "\f", "\r"})
    IN  IF HasAt(t, Len(t) - 1, << "*", "/" >>)
        THEN (LET r == SubSeq(t, 1, Len(t) - 2)
              IN  IF r # << >> /\ IsSpace(r[Len(r)])
                  THEN SubSeq(r, 1, Len(r) - 1)
                  ELSE r)
        ELSE x

\* the line with its comment delimiters removed
Stripped(l) == StripTrail(StripLead(l))

\* C24: a line classified as comment adds to the Doc of the current section
\* the line without its comment delimiters (an indented // or /* at the
\* start with one whitespace character after it, a */ at the end with one
\* whitespace character before it and the whitespace after it) and one
\* newline; a comment line that matches none of the patterns is added as it
\* is, indentation included.
C24_Stripped ==
    [][ (LineStep /\ branch' = "comment") =>
            LET l == lines[i]
                before == IF Len(sections') > Len(sections)
                          THEN << >> ELSE current.Doc
            IN  /\ current'.Doc = before \o Stripped(l) \o << NL >>
                /\ PlainLine(l) => current'.Doc = before \o l \o << NL >> ]_vars

\* C24 witness: inside a block comment, a line with a // at its start and
\* a */ at its end has been added to the Doc without both
C24_Witness ==
    /\ pc = "loop"
    /\ i = 3
    /\ lines[2] = << "/", "/", "a", "*", "/" >>
    /\ branch = "comment"
    /\ current.Doc = << NL, "a", NL >>

\* the number of tabs and spaces the text s starts with
LeadingRun(s) ==
    CHOOSE n \in 0..Len(s) :
        /\ \A k \in 1..n : s[k] \in {"\t", " "}
        /\ n < Len(s) => s[n + 1] \notin {"\t", " "}

\* a highlighter that returns its input
SameText(code) == code

\* C25: in the HTML target, for every section whose Code has a character
\* that is not whitespace, highlightCode splits the Code into its leading
\* run of tabs and spaces and the rest, which together are the Code; the
\* highlighter gets the rest only, and the Code stored is the run followed
\* by what the highlighter returns. With a highlighter that returns its
\* input the Code stays as it is.
C25_LeadingWs ==
    Highlighted =>
        \A k \in 1..Len(result) :
            LET s == result[k].Code
                run == SubSeq(s, 1, LeadingRun(s))
                rest == SubSeq(s, LeadingRun(s) + 1, Len(s))
            IN  ~OnlyWhite(s) =>
                    /\ splitLeadingWs(s) = << run, rest >>
                    /\ rendered[k].Code = run \o Highlight(rest)
                    /\ hasCode(s)
                    /\ splitLeadingWs(s)[1] \o SameText(splitLeadingWs(s)[2]) = s

\* C25 witness: a Code that starts with a tab has been highlighted, the
\* tab is in front of the highlighted text
C25_Witness ==
    /\ Highlighted
    /\ \E k \in 1..Len(result) :
           /\ result[k].Code = << "\t", "a", NL >>
           /\ rendered[k].Code = << "\t", "<hl>", "a", NL, "</hl>" >>

\* C26: in the Markdown target with -intro, markdownCode is not run: the
\* output is the stripped text of the leading comment block and nothing
\* else, and no code fence is in it.
C26_IntroMarkdown ==
    (md /\ intro /\ pc = "generated") =>
        /\ Len(rendered) = 1
        /\ rendered[1].Code = << >>
        /\ \A k \in 1..Len(generated.text) : generated.text[k] # Fence
        /\ generated.text = LeadingBlock(1)

\* every section of secs but the last has Code, and every section but the
\* first has Doc
CodeThenDoc(secs) ==
    /\ \A k \in 1..(Len(secs) - 1) : secs[k].Code # << >>
    /\ \A k \in 2..Len(secs) : secs[k].Doc # << >>

\* C27: in the result of extractSections every section except the last has
\* a Code that is not empty and every section except the first has a Doc
\* that is not empty, so a section with neither Doc nor Code is the only
\* section of its result. The same holds for the sections collected so far
\* together with the current one.
C27_CodeThenDoc ==
    /\ pc = "loop" => CodeThenDoc(Append(sections, current))
    /\ pc = "done" =>
           /\ Len(result) >= 1
           /\ CodeThenDoc(result)
           /\ (\E k \in 1..Len(result) : result[k] = NewSection) => Len(result) = 1

\* C27 witness: a result of three sections, the first without Doc and the
\* last without Code
C27_Witness ==
    /\ pc = "done"
    /\ Len(result) = 3
    /\ result[1].Doc = << >>
    /\ result[3].Code = << >>
    /\ result[2].Doc # << >>
    /\ result[2].Code # << >>

=============================================================================
